---------------------------- MODULE Spec2Model ----------------------------
(***************************************************************************)
(* A model of the two core subsystems of sdk-it:                           *)
(*   packages/core/src/lib/paths.ts      toSchema, Paths (addPath,         *)
(*                                       #responseItemToResponses,         *)
(*                                       getPaths)                         *)
(*   packages/typescript/src/lib/sdk.ts  generateClientSdk and its three   *)
(*                                       builders                          *)
(*                                                                         *)
(* JavaScript values are encoded as records tagged by the field j:         *)
(*   [j |-> "null"], [j |-> "undefined"], [j |-> "bool", b |-> ...],       *)
(*   [j |-> "str", s |-> ...], [j |-> "arr", el |-> <<...>>],              *)
(*   [j |-> "obj", kv |-> << <<key, value>>, ... >>]   (insertion order)   *)
(* An object that carries the symbol-keyed children list [$types] has the  *)
(* additional field types.                                                 *)
(***************************************************************************)
EXTENDS Naturals, Sequences, FiniteSets, TLC

VARIABLES
    data,            \* toSchema: the argument
    returned,        \* toSchema: the value returned (or thrown)
    responses,       \* #responseItemToResponses: the argument
    idx,             \* #responseItemToResponses: items consumed by the for loop
    responsesObject, \* #responseItemToResponses: the local responsesObject
    onOperation,     \* Paths.#onOperation
    operations,      \* Paths.#operations
    calls,           \* history: the arguments of every addPath call
    hookCalls,       \* history: every invocation of #onOperation
    paths,           \* what getPaths returned
    spec,            \* generateClientSdk: the argument
    pc,              \* generateClientSdk: position in the two nested loops
    emitter,         \* generateClientSdk: const emitter
    streamEmitter,   \* generateClientSdk: const streamEmitter
    schemaEndpoint,  \* generateClientSdk: const schemaEndpoint
    schemas,         \* generateClientSdk: const schemas
    schemasImports,  \* generateClientSdk: const schemasImports
    errors,          \* generateClientSdk: const errors
    buckets,         \* history: the four input buckets of every operation
    artifacts        \* what generateClientSdk returned (or threw)

schemaVars == <<data, returned>>
mergeVars == <<responses, idx, responsesObject>>
pathsVars == <<onOperation, operations, calls, hookCalls, paths>>
sdkVars == <<spec, pc, emitter, streamEmitter, schemaEndpoint, schemas,
             schemasImports, errors, buckets, artifacts>>
vars == <<schemaVars, mergeVars, pathsVars, sdkVars>>

---------------------------------------------------------------------------
(* JavaScript values *)

JNull == [j |-> "null"]
JUndefined == [j |-> "undefined"]
JFalse == [j |-> "bool", b |-> FALSE]
JStr(s) == [j |-> "str", s |-> s]
JArr(el) == [j |-> "arr", el |-> el]
JObj(kv) == [j |-> "obj", kv |-> kv]
\* a DateType: an object with the own properties kv and the children list
DateType(kv, types) == [j |-> "obj", kv |-> kv, types |-> types]

\* an uncaught TypeError
TypeError == [j |-> "TypeError"]
\* no value yet
Pending == [j |-> "pending"]

HasKey(obj, key) == \E i \in 1..Len(obj.kv) : obj.kv[i][1] = key

\* obj[key], undefined when the property is missing
Get(obj, key) ==
    IF HasKey(obj, key)
    THEN obj.kv[CHOOSE i \in 1..Len(obj.kv) : obj.kv[i][1] = key][2]
    ELSE JUndefined

\* array[i] (1-based here), undefined past the end
At(seq, i) == IF i <= Len(seq) THEN seq[i] ELSE JUndefined

\* the strings of the model that begin with '#'
HashStrings == {"#/components/schemas/Item"}

startsWith(s, prefix) == prefix = "#" /\ s \in HashStrings

RECURSIVE SelectSeqKV(_)
\* the properties JSON.stringify writes: those whose value is not undefined
SelectSeqKV(kv) ==
    IF kv = <<>> THEN <<>>
    ELSE IF Head(kv)[2].j = "undefined" THEN SelectSeqKV(Tail(kv))
    ELSE <<Head(kv)>> \o SelectSeqKV(Tail(kv))

RECURSIVE stringify(_)
\* JSON.stringify, as the canonical form of the text it writes: two values have
\* the same text exactly when they have the same canonical form. Properties
\* with an undefined value are left out, an undefined array element is
\* written null, symbol-keyed properties are not written.
stringify(v) ==
    IF v.j = "obj"
    THEN LET kept == SelectSeqKV(v.kv)
         IN JObj([i \in 1..Len(kept) |-> <<kept[i][1], stringify(kept[i][2])>>])
    ELSE IF v.j = "arr"
    THEN JArr([i \in 1..Len(v.el) |->
                 IF v.el[i].j = "undefined" THEN JNull ELSE stringify(v.el[i])])
    ELSE v

---------------------------------------------------------------------------
(* toSchema *)

Threw(results) == \E i \in 1..Len(results) : results[i] = TypeError

\* a mutation of firstOrEmpty: the last child instead of the first
firstOrEmptyLast(mapped) ==
    IF Len(mapped) # 0 THEN mapped[Len(mapped)] ELSE JObj(<<>>)

\* data[$types].map(toSchema)[0] ?? {}
firstOrEmpty(mapped) == IF Len(mapped) # 0 THEN mapped[1] ELSE JObj(<<>>)

RECURSIVE toSchema(_)
toSchema(d) ==
    IF d.j \in {"null", "undefined"}
    THEN JObj(<< <<"type", JStr("any")>> >>)
    ELSE IF d.j = "str"
    THEN IF startsWith(d.s, "#")
         THEN JObj(<< <<"$ref", d>> >>)
         ELSE JObj(<< <<"type", d>> >>)
    ELSE LET kind == Get(d, "kind")
             hasTypes == "types" \in DOMAIN d
             mapped == [i \in 1..Len(d.types) |-> toSchema(d.types[i])]
         IN
         IF kind = JStr("literal")
         THEN IF ~hasTypes THEN TypeError
              ELSE JObj(<< <<"enum", JArr(<<Get(d, "value")>>)>>,
                           <<"type", At(d.types, 1)>> >>)
         ELSE IF kind = JStr("record")
         THEN IF ~hasTypes THEN TypeError
              ELSE LET first == toSchema(At(d.types, 1))
                   IN IF first = TypeError THEN TypeError
                      ELSE JObj(<< <<"type", JStr("object")>>,
                                   <<"additionalProperties", first>> >>)
         ELSE IF kind = JStr("array")
         THEN IF ~hasTypes \/ Threw(mapped) THEN TypeError
              ELSE JObj(<< <<"type", JStr("array")>>,
                           <<"items", IF Len(d.types) # 0 THEN mapped[1]
                                      ELSE JObj(<<>>)>> >>)
         ELSE IF kind = JStr("union")
         THEN IF ~hasTypes \/ Threw(mapped) THEN TypeError
              ELSE JObj(<< <<"anyOf", JArr(mapped)>> >>)
         ELSE IF kind = JStr("intersection")
         THEN IF ~hasTypes \/ Threw(mapped) THEN TypeError
              ELSE JObj(<< <<"allOf", JArr(mapped)>> >>)
         ELSE IF hasTypes
         THEN IF Threw(mapped) THEN TypeError
              ELSE firstOrEmpty(mapped)
         ELSE LET props == [i \in 1..Len(d.kv) |->
                              <<d.kv[i][1], toSchema(d.kv[i][2])>>]
              IN IF \E i \in 1..Len(props) : props[i][2] = TypeError
                 THEN TypeError
                 ELSE JObj(<< <<"type", JStr("object")>>,
                              <<"properties", JObj(props)>>,
                              <<"additionalProperties", JFalse>> >>)

---------------------------------------------------------------------------
(* The inputs of toSchema *)

\* nesting depth of the structural type nodes given to toSchema
MaxDepth == 2

Leaves ==
    {JNull, JUndefined, JStr("string"), JStr("#/components/schemas/Item")}

\* the five kinds toSchema knows, and one it does not
KnownKinds == {"literal", "record", "array", "union", "intersection"}
Kinds == KnownKinds \cup {"object"}

\* the own properties of a DateType
NodeProps ==
    {<< <<"kind", JStr(k)>>, <<"optional", JFalse>> >> : k \in Kinds}
    \cup {<< <<"kind", JStr("literal")>>, <<"optional", JFalse>>,
             <<"value", JStr("on")>> >>}

ChildLists(D) ==
    {<<>>} \cup {<<c>> : c \in D} \cup {<<c, JStr("number")>> : c \in D}

\* objects without a children list; a field may itself be called kind
PlainObjects(D) ==
    {JObj(<<>>)}
    \cup {JObj(<< <<"a", c>> >>) : c \in D}
    \cup {JObj(<< <<"kind", JStr(k)>> >>) : k \in {"array", "string"}}
    \cup {JObj(<< <<"a", c>>, <<"kind", JStr(k)>> >>) :
             c \in D, k \in {"array", "string"}}

RECURSIVE DataOfDepth(_)
DataOfDepth(n) ==
    IF n = 0 THEN Leaves
    ELSE LET D == DataOfDepth(n - 1)
         IN Leaves
            \cup {DateType(kv, t) : kv \in NodeProps, t \in ChildLists(D)}
            \cup PlainObjects(D)

---------------------------------------------------------------------------
(* Specification of toSchema: one call on an arbitrary input *)

SchemaIdle == data = Pending /\ returned = Pending
MergeIdle == responses = <<>> /\ idx = 0 /\ responsesObject = <<>>
PathsIdle ==
    /\ onOperation = "none"
    /\ operations = <<>>
    /\ calls = <<>>
    /\ hookCalls = <<>>
    /\ paths = Pending
SdkIdle ==
    /\ spec = <<>>
    /\ pc = [at |-> "idle", g |-> 0, o |-> 0]
    /\ emitter = Pending
    /\ streamEmitter = Pending
    /\ schemaEndpoint = Pending
    /\ schemas = <<>>
    /\ schemasImports = <<>>
    /\ errors = <<>>
    /\ buckets = <<>>
    /\ artifacts = Pending

InitSchema ==
    /\ data \in DataOfDepth(MaxDepth)
    /\ returned = Pending
    /\ MergeIdle /\ PathsIdle /\ SdkIdle

CallToSchema ==
    /\ returned = Pending
    /\ data # Pending
    /\ returned' = toSchema(data)
    /\ UNCHANGED <<data, mergeVars, pathsVars, sdkVars>>

NextSchema == CallToSchema

SpecSchema == InitSchema /\ [][NextSchema]_vars

---------------------------------------------------------------------------
(* C8: the dispatch rules of toSchema *)

HasTypes(d) == "types" \in DOMAIN d
IsNode(d, k) == d.j = "obj" /\ Get(d, "kind") = JStr(k)
KindKnown(d) == \E k \in KnownKinds : IsNode(d, k)

RECURSIVE Unserializable(_)
\* the inputs on which a call raises a TypeError: an object without a
\* children list whose kind property is one of the five known kinds, where
\* toSchema reaches it
Unserializable(d) ==
    /\ d.j = "obj"
    /\ IF ~HasTypes(d)
       THEN \/ KindKnown(d)
            \/ \E i \in 1..Len(d.kv) : Unserializable(d.kv[i][2])
       ELSE IF IsNode(d, "literal") THEN FALSE
       ELSE IF IsNode(d, "record") THEN Unserializable(At(d.types, 1))
       ELSE \E i \in 1..Len(d.types) : Unserializable(d.types[i])

PlainObjectSchema(d) ==
    JObj(<< <<"type", JStr("object")>>,
            <<"properties",
              JObj([i \in 1..Len(d.kv) |-> <<d.kv[i][1], toSchema(d.kv[i][2])>>])>>,
            <<"additionalProperties", JFalse>> >>)

\* rules 1 to 7, and rule 8 for a non-empty children list
RulesOneToEight ==
    /\ data.j \in {"null", "undefined"} =>
         returned = JObj(<< <<"type", JStr("any")>> >>)
    /\ data.j = "str" /\ data.s \in HashStrings =>
         returned = JObj(<< <<"$ref", JStr(data.s)>> >>)
    /\ data.j = "str" /\ data.s \notin HashStrings =>
         returned = JObj(<< <<"type", JStr(data.s)>> >>)
    /\ IsNode(data, "literal") =>
         returned = JObj(<< <<"enum", JArr(<<Get(data, "value")>>)>>,
                            <<"type", At(data.types, 1)>> >>)
    /\ IsNode(data, "record") =>
         returned = JObj(<< <<"type", JStr("object")>>,
                            <<"additionalProperties",
                              toSchema(At(data.types, 1))>> >>)
    /\ IsNode(data, "array") /\ Len(data.types) = 0 =>
         returned = JObj(<< <<"type", JStr("array")>>, <<"items", JObj(<<>>)>> >>)
    /\ IsNode(data, "array") /\ Len(data.types) > 0 =>
         returned = JObj(<< <<"type", JStr("array")>>,
                            <<"items", toSchema(data.types[1])>> >>)
    /\ IsNode(data, "union") =>
         returned = JObj(<< <<"anyOf",
              JArr([i \in 1..Len(data.types) |-> toSchema(data.types[i])])>> >>)
    /\ IsNode(data, "intersection") =>
         returned = JObj(<< <<"allOf",
              JArr([i \in 1..Len(data.types) |-> toSchema(data.types[i])])>> >>)
    /\ data.j = "obj" /\ ~KindKnown(data) /\ HasTypes(data)
         /\ Len(data.types) > 0 =>
         returned = toSchema(data.types[1])

---------------------------------------------------------------------------
(* Paths.#responseItemToResponses *)

OctetStream == "application/octet-stream"
Binary == JObj(<< <<"type", JStr("string")>>, <<"format", JStr("binary")>> >>)

\* a value the conditional operator takes for false
Falsy(v) == v.j \in {"undefined", "null"} \/ v = JStr("") \/ v = JFalse

Range(seq) == {seq[i] : i \in 1..Len(seq)}

\* a mutation of Push: the previous union becomes a member of a new one
PushNested(existing, schema) ==
    JObj(<< <<"oneOf", JArr(<<existing, schema>>)>> >>)

\* existing.oneOf.push(schema)
Push(existing, schema) ==
    [existing EXCEPT !.kv =
        [i \in 1..Len(@) |->
            IF @[i][1] = "oneOf"
            THEN <<"oneOf", JArr(Append(@[i][2].el, schema))>>
            ELSE @[i]]]

\* one iteration of the for loop: the responsesObject after item.
\* An object keyed by status code or by content type is a function.
MergeItem(ro, item) ==
    LET ct == item.contentType
        sc == item.statusCode
        schema == IF ~Falsy(item.response) THEN toSchema(item.response)
                  ELSE JObj(<<>>)
    IN
    IF sc \notin DOMAIN ro
    THEN ro @@ (sc :>
           [description |-> <<"Response for ", sc>>,
            content |-> (ct :> IF ct = OctetStream
                               THEN [schema |-> Binary]
                               ELSE [schema |-> schema]),
            headers |-> IF Len(item.headers) # 0
                        THEN [h \in Range(item.headers) |->
                                [schema |-> JObj(<< <<"type", JStr("string")>> >>)]]
                        ELSE JUndefined])
    ELSE IF ct \notin DOMAIN ro[sc].content
    THEN [ro EXCEPT ![sc].content = @ @@ (ct :> [schema |-> schema])]
    ELSE LET existing == ro[sc].content[ct].schema
         IN IF HasKey(existing, "oneOf")
            THEN IF ~\E i \in 1..Len(Get(existing, "oneOf").el) :
                       stringify(Get(existing, "oneOf").el[i]) = stringify(schema)
                 THEN [ro EXCEPT ![sc].content[ct].schema = Push(existing, schema)]
                 ELSE ro
            ELSE IF stringify(existing) # stringify(schema)
            THEN [ro EXCEPT ![sc].content[ct].schema =
                    JObj(<< <<"oneOf", JArr(<<existing, schema>>)>> >>)]
            ELSE ro

RECURSIVE MergeFrom(_, _)
MergeFrom(ro, items) ==
    IF items = <<>> THEN ro ELSE MergeFrom(MergeItem(ro, Head(items)), Tail(items))

\* the whole loop
responseItemToResponses(items) == MergeFrom(<<>>, items)

---------------------------------------------------------------------------
(* Specification of #responseItemToResponses: the loop, item by item *)

\* length of the list of response items
MaxItems == 3

StatusCodes == {"200", "404"}
ContentTypes == {"application/json", OctetStream}
\* response types: none, a primitive name, a reference, an array node
ResponseTypes ==
    {JUndefined, JStr("string"), JStr("#/components/schemas/Item"),
     DateType(<< <<"kind", JStr("array")>>, <<"optional", JFalse>> >>,
              <<JStr("string")>>)}

\* every item without headers, and two items that declare a header
ResponseItems ==
    [statusCode : StatusCodes, response : ResponseTypes,
     contentType : ContentTypes, headers : {<<>>}]
    \cup {[statusCode |-> "200", response |-> JStr("string"),
           contentType |-> "application/json", headers |-> <<"x-request-id">>],
          [statusCode |-> "404", response |-> JUndefined,
           contentType |-> OctetStream, headers |-> <<"x-request-id">>]}

SeqsUpTo(S, n) == UNION {[1..k -> S] : k \in 0..n}

InitMerge ==
    /\ responses \in SeqsUpTo(ResponseItems, MaxItems)
    /\ idx = 0
    /\ responsesObject = <<>>
    /\ SchemaIdle /\ PathsIdle /\ SdkIdle

MergeNextItem ==
    /\ idx < Len(responses)
    /\ responsesObject' = MergeItem(responsesObject, responses[idx + 1])
    /\ idx' = idx + 1
    /\ UNCHANGED <<responses, schemaVars, pathsVars, sdkVars>>

NextMerge == MergeNextItem

SpecMerge == InitMerge /\ [][NextMerge]_vars

---------------------------------------------------------------------------
(* C3, C4, C5: the response merge *)

\* the schema the loop computes for an item (const schema)
ItemSchema(item) ==
    IF ~Falsy(item.response) THEN toSchema(item.response) ELSE JObj(<<>>)

SameTriple(a, b) ==
    /\ a.statusCode = b.statusCode
    /\ a.contentType = b.contentType
    /\ a.response = b.response

\* C3 as stated: adding an item whose (statusCode, contentType, schema) was
\* added before leaves the content entry of that pair as it was: a single
\* schema stays single, a oneOf gains no member
C3_AsStated ==
    [][(idx' = idx + 1 /\ \E k \in 1..idx : SameTriple(responses[k], responses[idx']))
         => LET it == responses[idx']
            IN responsesObject'[it.statusCode].content[it.contentType]
                 = responsesObject[it.statusCode].content[it.contentType]]_vars

\* the schema an item stands for in its content entry: the fixed binary
\* schema under application/octet-stream, the serialized response type
\* otherwise
EntrySchema(item) ==
    IF item.contentType = OctetStream THEN Binary ELSE ItemSchema(item)

IsUnion(schema) == schema.j = "obj" /\ HasKey(schema, "oneOf")

RECURSIVE Distinct(_)
\* a list without its repetitions, first occurrences kept in order
Distinct(seq) ==
    IF seq = <<>> THEN <<>>
    ELSE LET front == Distinct(SubSeq(seq, 1, Len(seq) - 1))
             last == seq[Len(seq)]
         IN IF last \in Range(front) THEN front ELSE Append(front, last)

RECURSIVE SchemasOf(_, _, _)
\* the schemas added under (sc, ct) by the items of a list, in arrival order
SchemasOf(items, sc, ct) ==
    IF items = <<>> THEN <<>>
    ELSE LET rest == SchemasOf(Tail(items), sc, ct)
             it == Head(items)
         IN IF it.statusCode = sc /\ it.contentType = ct
            THEN <<EntrySchema(it)>> \o rest
            ELSE rest

C5_AsStated ==
    \A k \in 1..idx :
        responses[k].contentType = OctetStream =>
            responsesObject[responses[k].statusCode].content[OctetStream].schema
              = Binary

---------------------------------------------------------------------------
(* Paths: addPath and getPaths *)

semanticSourceToOpenAPI ==
    [queries |-> "query", query |-> "query", headers |-> "header",
     params |-> "path"]

\* schema.replace('.optional()', '') on the validation expressions of the model
StripOptional(schema) ==
    IF schema = "z.string().optional()" THEN "z.string()" ELSE schema

\* the schema the external evaluator returns for an expression: determined by
\* the text submitted to it, otherwise uninterpreted
evalZod(schema) == [jsonSchemaOf |-> StripOptional(schema)]

RECURSIVE ParametersOf(_)
\* const parameters of #selectosToParameters
ParametersOf(selectors) ==
    IF selectors = <<>> THEN <<>>
    ELSE LET selector == Head(selectors)
         IN IF selector.source = "body" THEN ParametersOf(Tail(selectors))
            ELSE <<[in |-> semanticSourceToOpenAPI[selector.source],
                    name |-> selector.name,
                    required |-> selector.required,
                    schema |-> evalZod(selector.against)]>>
                 \o ParametersOf(Tail(selectors))

RECURSIVE BodySchemaPropsOf(_)
\* const bodySchemaProps of #selectosToParameters, keyed by selector name
BodySchemaPropsOf(selectors) ==
    IF selectors = <<>> THEN <<>>
    ELSE LET selector == Head(selectors)
             rest == BodySchemaPropsOf(Tail(selectors))
         IN IF selector.source = "body"
            THEN rest @@ (selector.name :> evalZod(selector.against))
            ELSE rest

selectosToParameters(selectors) ==
    [parameters |-> ParametersOf(selectors),
     bodySchemaProps |-> BodySchemaPropsOf(selectors)]

\* const operationObject of getPaths
OperationObject(operation) ==
    LET built == selectosToParameters(operation.selectors)
    IN [operationId |-> operation.name,
        parameters |-> built.parameters,
        tags |-> operation.tags,
        description |-> operation.description,
        requestBody |->
            IF DOMAIN built.bodySchemaProps # {}
            THEN [content |-> [applicationJson |->
                    [schema |-> [type |-> "object",
                                 properties |-> built.bodySchemaProps]]]]
            ELSE JUndefined,
        responses |->
            IF DOMAIN operation.responses = {} THEN JUndefined
            ELSE operation.responses]

\* a mutation of InsertOperation: an entry already there is kept
InsertOperationOnce(acc, path, method, operationObject) ==
    IF path \notin DOMAIN acc THEN acc @@ (path :> (method :> operationObject))
    ELSE [acc EXCEPT ![path] = @ @@ (method :> operationObject)]

\* if (!operations[path]) operations[path] = {};
\* operations[path][method] = operationObject
InsertOperation(acc, path, method, operationObject) ==
    IF path \notin DOMAIN acc THEN acc @@ (path :> (method :> operationObject))
    ELSE [acc EXCEPT ![path] = (method :> operationObject) @@ @]

\* Object.assign(target, source)
ObjectAssign(target, source) == source @@ target

\* the hooks a caller may configure: one returns a fragment with a path of its
\* own that repeats the operation, one returns an empty fragment
Hooks == {"mirror", "silent"}

CallHook(hook, sourceFile, method, path, operationObject) ==
    IF hook = "mirror" THEN ("/mirror" :> (method :> operationObject))
    ELSE <<>>

RECURSIVE GetPathsFrom(_, _, _)
\* the for loop of getPaths from the given operations on: acc is the outer
\* const operations (the result), log the hook invocations so far. Inside
\* the if block a second const operations, the hook's result, shadows the
\* outer one: Object.assign(operations, operations ?? {}) assigns the hook's
\* result to itself and the outer object is not touched.
GetPathsFrom(ops, acc, log) ==
    IF ops = <<>> THEN [paths |-> acc, hookCalls |-> log]
    ELSE LET operation == Head(ops)
             operationObject == OperationObject(operation)
             inserted == InsertOperation(acc, operation.path, operation.method,
                                         operationObject)
             inner == CallHook(onOperation, operation.sourceFile,
                               operation.method, operation.path, operationObject)
             assigned == ObjectAssign(inner, inner)
         IN IF onOperation # "none"
            THEN GetPathsFrom(Tail(ops), inserted,
                    Append(log, [sourceFile |-> operation.sourceFile,
                                 method |-> operation.method,
                                 path |-> operation.path,
                                 operation |-> operationObject,
                                 resultAtCall |-> inserted,
                                 returned |-> assigned]))
            ELSE GetPathsFrom(Tail(ops), inserted, log)

---------------------------------------------------------------------------
(* Specification of Paths: addPath calls, then getPaths *)

\* number of addPath calls
MaxCalls == 2

PathNames == {"/items", "/items/{id}"}
MethodNames == {"get", "post"}
OperationNames == {"listItems"}

ItemString ==
    [statusCode |-> "200", response |-> JStr("string"),
     contentType |-> "application/json", headers |-> <<>>]
ItemRef ==
    [statusCode |-> "200", response |-> JStr("#/components/schemas/Item"),
     contentType |-> "application/json", headers |-> <<>>]
ItemNotFound ==
    [statusCode |-> "404", response |-> JUndefined,
     contentType |-> "application/json", headers |-> <<"x-request-id">>]

ResponseLists ==
    {<<>>, <<ItemString>>, <<ItemRef>>, <<ItemString, ItemRef>>,
     <<ItemString, ItemNotFound>>}

SelectorLists ==
    {<<>>,
     <<[name |-> "limit", select |-> "limit", against |-> "z.string().optional()",
        source |-> "query", nullable |-> FALSE, required |-> FALSE],
       [name |-> "title", select |-> "title", against |-> "z.string()",
        source |-> "body", nullable |-> FALSE, required |-> TRUE]>>}

InitPaths ==
    /\ onOperation \in {"none"} \cup Hooks
    /\ operations = <<>>
    /\ calls = <<>>
    /\ hookCalls = <<>>
    /\ paths = Pending
    /\ SchemaIdle /\ MergeIdle /\ SdkIdle

\* addPath; a result getPaths returned earlier no longer stands for the
\* accumulated operations and is forgotten
AddPath ==
    /\ Len(operations) < MaxCalls
    /\ \E name \in OperationNames, path \in PathNames, method \in MethodNames,
          selectors \in SelectorLists, items \in ResponseLists :
         /\ operations' = Append(operations,
                [name |-> name, path |-> path, sourceFile |-> "items.ts",
                 method |-> method, selectors |-> selectors,
                 responses |-> responseItemToResponses(items),
                 tags |-> JUndefined, description |-> JUndefined])
         /\ calls' = Append(calls,
                [name |-> name, path |-> path, method |-> method,
                 selectors |-> selectors, responses |-> items])
    /\ paths' = Pending
    /\ hookCalls' = <<>>
    /\ UNCHANGED <<onOperation, schemaVars, mergeVars, sdkVars>>

GetPaths ==
    /\ paths = Pending
    /\ LET result == GetPathsFrom(operations, <<>>, <<>>)
       IN /\ paths' = result.paths
          /\ hookCalls' = result.hookCalls
    /\ UNCHANGED <<onOperation, operations, calls, schemaVars, mergeVars, sdkVars>>

NextPaths == AddPath \/ GetPaths

SpecPaths == InitPaths /\ [][NextPaths]_vars

---------------------------------------------------------------------------
(* C2, C10: what getPaths returns *)

CallsFor(path, method) ==
    {k \in 1..Len(calls) : calls[k].path = path /\ calls[k].method = method}

Max(S) == CHOOSE k \in S : \A l \in S : l <= k

RECURSIVE ItemsOfCalls(_, _, _)
\* the response items of the calls from k on that target (path, method)
ItemsOfCalls(k, path, method) ==
    IF k > Len(calls) THEN <<>>
    ELSE IF calls[k].path = path /\ calls[k].method = method
    THEN calls[k].responses \o ItemsOfCalls(k + 1, path, method)
    ELSE ItemsOfCalls(k + 1, path, method)

ResponsesOrUndefined(items) ==
    IF items = <<>> THEN JUndefined ELSE responseItemToResponses(items)

ResultHasExactlyTheCalledOperations ==
    /\ DOMAIN paths = {calls[k].path : k \in 1..Len(calls)}
    /\ \A p \in DOMAIN paths :
         DOMAIN paths[p] = {calls[k].method : k \in {l \in 1..Len(calls) : calls[l].path = p}}

\* C2 as stated: under paths[path][method] getPaths returns the merge of the
\* response items of every addPath call that targeted that path and method
C2_AsStated ==
    paths # Pending =>
        /\ ResultHasExactlyTheCalledOperations
        /\ \A p \in DOMAIN paths : \A m \in DOMAIN paths[p] :
             paths[p][m].responses = ResponsesOrUndefined(ItemsOfCalls(1, p, m))

\* C2 amended: under paths[path][method] getPaths returns the response table
\* built from the response items of the last addPath call that targeted that
\* path and method (no responses at all when that call had no items); the
\* items of earlier calls for the same path and method are not in it
C2_LastCallWins ==
    paths # Pending =>
        /\ ResultHasExactlyTheCalledOperations
        /\ \A p \in DOMAIN paths : \A m \in DOMAIN paths[p] :
             paths[p][m].responses =
                ResponsesOrUndefined(calls[Max(CallsFor(p, m))].responses)

\* getPaths returned after two addPath calls for the same path and method
\* with different response items
C2_Witness ==
    /\ paths # Pending
    /\ Len(calls) = 2
    /\ calls[1].path = calls[2].path
    /\ calls[1].method = calls[2].method
    /\ calls[1].responses = <<ItemString>>
    /\ calls[2].responses = <<ItemRef>>

\* C10 as stated: with a hook configured, getPaths invokes it exactly once
\* for each accumulated operation, in order, after that operation is under
\* paths[path][method], and every path entry of every fragment the hook
\* returned is in the result of getPaths
C10_AsStated ==
    (paths # Pending /\ onOperation # "none") =>
        /\ Len(hookCalls) = Len(operations)
        /\ \A i \in 1..Len(hookCalls) :
             /\ hookCalls[i].path = operations[i].path
             /\ hookCalls[i].method = operations[i].method
             /\ hookCalls[i].sourceFile = operations[i].sourceFile
             /\ hookCalls[i].resultAtCall[hookCalls[i].path][hookCalls[i].method]
                  = hookCalls[i].operation
             /\ \A p \in DOMAIN hookCalls[i].returned :
                  /\ p \in DOMAIN paths
                  /\ \A m \in DOMAIN hookCalls[i].returned[p] :
                       m \in DOMAIN paths[p]

---------------------------------------------------------------------------
(* generateClientSdk *)
(* A generated text is a record of the values interpolated into its        *)
(* template; a name or a key built by concatenation is the tuple of its    *)
(* parts (an endpoint key: its words, which single spaces separate).       *)

\* the naming utilities of stringcase, uninterpreted
camelcase(words) == <<"camelcase">> \o words
pascalcase(words) == <<"pascalcase">> \o words
spinalcase(words) == <<"spinalcase">> \o words

\* String.prototype.toUpperCase on the method names of the model
toUpperCase(str) ==
    IF str = "get" THEN "GET" ELSE IF str = "post" THEN "POST" ELSE str

RECURSIVE removeDuplicates(_)
\* removeDuplicates(list, (it) => it): first occurrences, in order
removeDuplicates(list) ==
    IF list = <<>> THEN <<>>
    ELSE LET front == removeDuplicates(SubSeq(list, 1, Len(list) - 1))
             last == list[Len(list)]
         IN IF last \in Range(front) THEN front ELSE Append(front, last)

RECURSIVE Flatten(_)
Flatten(seqs) == IF seqs = <<>> THEN <<>> ELSE Head(seqs) \o Flatten(Tail(seqs))

\* new SchemaEndpoint()
NewSchemaEndpoint ==
    [imports |-> << <<"import z from 'zod'">>,
                    <<"import type { Endpoints } from ./endpoints">>,
                    <<"import { toRequest, json, urlencoded, formdata, createUrl } from ./request">>,
                    <<"import type { ParseError } from ./parser">> >>,
     endpoints |-> <<>>]

\* new Emitter(), new StreamEmitter()
NewEmitter ==
    [imports |-> << <<"import z from 'zod'">>,
                    <<"import type { ParseError } from ./parser">> >>,
     endpoints |-> <<>>]

\* addEndpoint of the three builders
addEndpoint(builder, endpoint, operation) ==
    [builder EXCEPT !.endpoints = Append(@, [endpoint |-> endpoint,
                                             operation |-> operation])]

\* addImport of the three builders
addImport(builder, value) == [builder EXCEPT !.imports = Append(@, value)]

\* SchemaEndpoint.complete
SchemaEndpointComplete(builder) ==
    [imports |-> builder.imports, exports |-> "default",
     endpoints |-> builder.endpoints]

\* Emitter.complete
EmitterComplete(builder) ==
    [imports |-> builder.imports, interface |-> "Endpoints",
     endpoints |-> builder.endpoints]

\* StreamEmitter.complete
StreamEmitterComplete(builder) ==
    [imports |-> builder.imports, interface |-> "StreamEndpoints",
     endpoints |-> builder.endpoints]

ImportInputs(featureSchemaFileName) ==
    <<"import * as">> \o featureSchemaFileName \o <<"from ./inputs/">>
        \o featureSchemaFileName

\* the sources that put a field into a bucket, and the one that drops it
HeaderSources == {"headers", "header"}
KnownSources == HeaderSources \cup {"query", "body", "path", "internal"}

Quoted(name) == <<"\"", name, "\"">>

RECURSIVE Bucket(_, _)
\* the names, quoted, of the inputs whose source is in sources, in order
Bucket(inputs, sources) ==
    IF inputs = <<>> THEN <<>>
    ELSE IF Head(inputs)[2].source \in sources
    THEN <<Quoted(Head(inputs)[1])>> \o Bucket(Tail(inputs), sources)
    ELSE Bucket(Tail(inputs), sources)

\* a mutation of ClassifyInputs: an input of unknown source is left out of the
\* buckets like an internal one
ClassifyInputsSilently(operation) ==
    [inputHeaders |-> Bucket(operation.inputs, HeaderSources),
     inputQuery |-> Bucket(operation.inputs, {"query"}),
     inputBody |-> Bucket(operation.inputs, {"body"}),
     inputParams |-> Bucket(operation.inputs, {"path"})]

\* the for loop over operation.inputs: the four arrays, or the Error thrown at
\* the first input whose source is none of the known ones
ClassifyInputs(operation) ==
    LET inputs == operation.inputs
        unknown == {i \in 1..Len(inputs) : inputs[i][2].source \notin KnownSources}
    IN IF unknown # {}
       THEN LET i == CHOOSE i \in unknown : \A l \in unknown : i <= l
            IN [thrown |-> [message |-> <<"Unknown source", inputs[i][2].source,
                                         "in", inputs[i][1], "in", operation.name>>]]
       ELSE [inputHeaders |-> Bucket(inputs, HeaderSources),
             inputQuery |-> Bucket(inputs, {"query"}),
             inputBody |-> Bucket(inputs, {"body"}),
             inputParams |-> Bucket(inputs, {"path"})]

\* a mutation of typePrefix: the default variant is prefixed too
typePrefixAlways(addTypeParser, type) ==
    IF addTypeParser THEN <<type>> ELSE <<>>

\* let typePrefix = ''; if (addTypeParser && type !== 'json') typePrefix = `${type} `
typePrefix(addTypeParser, type) ==
    IF addTypeParser /\ type # "json" THEN <<type>> ELSE <<>>

\* operation.errors ?? fallback
ErrorsOr(operation, fallback) ==
    IF operation.errors = JUndefined THEN fallback ELSE operation.errors.el

\* the registry entry and the dispatch entry of one schema variant of a
\* standard operation (the body of for (const type in operation.schemas))
VariantEntries(operation, schemaRef, output, classified, type) ==
    LET addTypeParser == Len(operation.schemas) > 1
        input == <<"typeof">> \o schemaRef
                   \o (IF addTypeParser THEN <<".", type>> ELSE <<>>)
        endpoint == typePrefix(addTypeParser, type)
                      \o <<toUpperCase(operation.trigger.method),
                           operation.trigger.path>>
    IN [endpoint |-> endpoint,
        registry |-> [input |-> <<"z.infer<">> \o input \o <<">">>,
                      output |-> output.use,
                      error |-> Append(ErrorsOr(operation, << <<"ServerError">> >>),
                                       <<"ParseError<">> \o input \o <<">">>)],
        dispatch |-> [schema |-> schemaRef
                         \o (IF addTypeParser THEN <<".", type>> ELSE <<>>),
                      input |-> [interface |-> "Endpoints", key |-> endpoint],
                      endpoint |-> endpoint,
                      encoder |-> IF Falsy(operation.contentType) THEN JStr("json")
                                  ELSE operation.contentType,
                      inputHeaders |-> classified.inputHeaders,
                      inputQuery |-> classified.inputQuery,
                      inputBody |-> classified.inputBody,
                      inputParams |-> classified.inputParams]]

RECURSIVE AddVariants(_, _, _)
\* the for loop over the schema variants
AddVariants(builders, entries, k) ==
    IF k > Len(entries) THEN builders
    ELSE AddVariants(
            [emitter |-> addEndpoint(builders.emitter, entries[k].endpoint,
                                     entries[k].registry),
             schemaEndpoint |-> addEndpoint(builders.schemaEndpoint,
                                            entries[k].endpoint,
                                            entries[k].dispatch)],
            entries, k + 1)

\* lines 126 to 136: the schema file of a group and its import in the three
\* builders
EnterGroup ==
    /\ pc.at = "group"
    /\ pc.g <= Len(spec.groups)
    /\ LET group == spec.groups[pc.g]
           featureSchemaFileName == camelcase(group.name)
       IN /\ schemas' = (featureSchemaFileName :> << <<"import z from 'zod'">> >>)
                          @@ schemas
          /\ emitter' = addImport(emitter, ImportInputs(featureSchemaFileName))
          /\ streamEmitter' =
                addImport(streamEmitter, ImportInputs(featureSchemaFileName))
          /\ schemaEndpoint' =
                addImport(schemaEndpoint, ImportInputs(featureSchemaFileName))
          /\ pc' = IF Len(group.operations) > 0
                   THEN [at |-> "operation", g |-> pc.g, o |-> 1]
                   ELSE [at |-> "group", g |-> pc.g + 1, o |-> 0]
    /\ UNCHANGED <<spec, schemasImports, errors, buckets, artifacts,
                   schemaVars, mergeVars, pathsVars>>

\* lines 138 to 238: one operation. An input of unknown source throws out of
\* generateClientSdk: nothing is returned and its locals are gone.
ProcessOperation ==
    /\ pc.at = "operation"
    /\ LET group == spec.groups[pc.g]
           operation == group.operations[pc.o]
           featureSchemaFileName == camelcase(group.name)
           schemaName == camelcase(<<operation.name, "schema">>)
           schema == [export |-> schemaName,
                      literalObject |-> Len(operation.schemas) # 1,
                      schemas |-> operation.schemas]
           namedImports ==
               Flatten([i \in 1..Len(operation.imports) |->
                          [n \in 1..Len(operation.imports[i].namedImports) |->
                              operation.imports[i].namedImports[n].name]])
           schemaRef == featureSchemaFileName \o <<".">> \o schemaName
           output == operation.formatOutput
           classified == ClassifyInputs(operation)
           endpoint == <<toUpperCase(operation.trigger.method),
                         operation.trigger.path>>
           entries == [k \in 1..Len(operation.schemas) |->
                         VariantEntries(operation, schemaRef, output, classified,
                                        operation.schemas[k][1])]
           added == AddVariants(
                      [emitter |-> addImport(emitter,
                           <<"import type">> \o output.import
                             \o <<"from ./outputs/">>
                             \o spinalcase(<<operation.name>>)),
                       schemaEndpoint |-> schemaEndpoint],
                      entries, 1)
       IN IF "thrown" \in DOMAIN classified
          THEN /\ artifacts' = classified
               /\ pc' = [pc EXCEPT !.at = "thrown"]
               /\ UNCHANGED <<emitter, streamEmitter, schemaEndpoint, schemas,
                              schemasImports, errors, buckets>>
          ELSE /\ schemas' = [schemas EXCEPT ![featureSchemaFileName] =
                                Append(@, schema)]
               /\ schemasImports' = schemasImports \o namedImports
               /\ buckets' = Append(buckets, classified)
               /\ pc' = IF pc.o < Len(group.operations)
                        THEN [pc EXCEPT !.o = @ + 1]
                        ELSE [at |-> "group", g |-> pc.g + 1, o |-> 0]
               /\ artifacts' = artifacts
               /\ IF operation.type = "sse"
                  THEN /\ streamEmitter' =
                            addEndpoint(
                              addImport(streamEmitter,
                                <<"import type">> \o pascalcase(<<operation.name>>)
                                  \o <<"from ./outputs/">>
                                  \o spinalcase(<<operation.name>>)),
                              endpoint,
                              [input |-> <<"z.infer<", "typeof">> \o schemaRef
                                           \o <<">">>,
                               output |-> output.use])
                       /\ schemaEndpoint' =
                            addEndpoint(schemaEndpoint, endpoint,
                              [schema |-> schemaRef,
                               input |-> [interface |-> "StreamEndpoints",
                                          key |-> endpoint],
                               endpoint |-> endpoint,
                               encoder |-> JStr("json"),
                               inputHeaders |-> classified.inputHeaders,
                               inputQuery |-> classified.inputQuery,
                               inputBody |-> classified.inputBody,
                               inputParams |-> classified.inputParams])
                       /\ UNCHANGED <<emitter, errors>>
                  ELSE /\ emitter' = added.emitter
                       /\ schemaEndpoint' = added.schemaEndpoint
                       /\ errors' = errors \o ErrorsOr(operation, <<>>)
                       /\ UNCHANGED streamEmitter
    /\ UNCHANGED <<spec, schemaVars, mergeVars, pathsVars>>

\* the text of inputs/<key>.ts: the lines left by trim and filter(Boolean)
InputsFile(lines) ==
    [lines |->
        (IF Len(schemasImports) # 0
         THEN << <<"import">> \o removeDuplicates(schemasImports)
                   \o <<"from ../zod">> >>
         ELSE <<>>)
        \o (IF ~Falsy(spec.commonZod)
            THEN << <<"import * as commonZod from ../zod">> >>
            ELSE <<>>)
        \o lines]

\* lines 242 to 268: the import of the error types and the returned mapping
Return ==
    /\ pc.at = "group"
    /\ pc.g > Len(spec.groups)
    /\ emitter' = addImport(emitter,
            <<"import type">> \o Flatten(removeDuplicates(errors))
              \o <<"from ./response">>)
    /\ artifacts' =
         [file \in {<<"inputs/">> \o key \o <<".ts">> : key \in DOMAIN schemas} |->
             InputsFile(schemas[SubSeq(file, 2, Len(file) - 1)])]
         @@ (<<"backend.ts">> :> [text |-> "backend(spec)"])
         @@ (<<"parser.ts">> :> [text |-> "parserTxt"])
         @@ (<<"client.ts">> :> [text |-> "clientTxt"])
         @@ (<<"request.ts">> :> [text |-> "requestTxt"])
         @@ (<<"schemas.ts">> :> SchemaEndpointComplete(schemaEndpoint))
         @@ (<<"endpoints.ts">> :> EmitterComplete(emitter'))
         @@ (<<"response.ts">> :> [text |-> "responseTxt"])
    /\ pc' = [pc EXCEPT !.at = "done"]
    /\ UNCHANGED <<spec, streamEmitter, schemaEndpoint, schemas, schemasImports,
                   errors, buckets, schemaVars, mergeVars, pathsVars>>

---------------------------------------------------------------------------
(* Specification of generateClientSdk: one call on an arbitrary spec *)

\* operations of a spec, over all its groups
MaxOperations == 2
\* groups of a spec
MaxGroups == 2

GroupNames == <<"items", "users", "orders", "events">>
SdkOperationNames == <<"listItems", "createItem", "getItem", "watchItems">>
Triggers ==
    <<[method |-> "get", path |-> "/items"],
      [method |-> "post", path |-> "/items"],
      [method |-> "get", path |-> "/items/{id}"],
      [method |-> "GET", path |-> "/items/watch"]>>

Cycle(seq, k) == seq[((k - 1) % Len(seq)) + 1]

SchemaVariants ==
    {<< <<"json", "z.object({})">> >>,
     << <<"formdata", "z.object({})">> >>,
     << <<"json", "z.object({})">>, <<"formdata", "z.object({})">> >>}

DeclaredErrors == {JUndefined, JArr(<<>>), JArr(<< <<"NotFound">> >>)}

PathQueryHeaders ==
    << <<"id", [source |-> "path", schema |-> "z.string()"]>>,
       <<"limit", [source |-> "query", schema |-> "z.string()"]>>,
       <<"authorization", [source |-> "headers", schema |-> "z.string()"]>> >>

HeaderBodyInternal ==
    << <<"x-trace", [source |-> "header", schema |-> "z.string()"]>>,
       <<"title", [source |-> "body", schema |-> "z.string()"]>>,
       <<"subject", [source |-> "internal", schema |-> "z.string()"]>> >>

\* params is a source of the Paths selectors, not one generateClientSdk knows
UnknownInputs ==
    << <<"limit", [source |-> "query", schema |-> "z.string()"]>>,
       <<"id", [source |-> "params", schema |-> "z.string()"]>> >>

\* what an operation is, its name and trigger apart: standard operations with
\* every combination of declared errors and schema variants, standard and
\* streaming operations with one or two variants, and operations with an
\* input of unknown source
Shapes ==
    [type : {"http"}, errors : DeclaredErrors, schemas : SchemaVariants,
     inputs : {PathQueryHeaders}]
    \cup [type : {"http", "sse"}, errors : {JArr(<< <<"NotFound">> >>)},
          schemas : SchemaVariants \ {<< <<"formdata", "z.object({})">> >>},
          inputs : {HeaderBodyInternal}]
    \cup [type : {"http", "sse"}, errors : {JArr(<<>>)},
          schemas : {<< <<"json", "z.object({})">> >>},
          inputs : {UnknownInputs}]

\* the k-th operation of a spec
OperationOf(shape, k) ==
    [name |-> Cycle(SdkOperationNames, k),
     errors |-> shape.errors,
     type |-> shape.type,
     imports |-> <<[namedImports |-> <<[name |-> "itemSchema"]>>]>>,
     trigger |-> Cycle(Triggers, k),
     contentType |-> IF shape.schemas[1][1] = "formdata" THEN JStr("formdata")
                     ELSE JUndefined,
     schemas |-> shape.schemas,
     inputs |-> shape.inputs,
     formatOutput |-> [import |-> <<"Output", Cycle(SdkOperationNames, k)>>,
                       use |-> <<"Output", Cycle(SdkOperationNames, k)>>]]

RECURSIVE Sum(_)
Sum(seq) == IF seq = <<>> THEN 0 ELSE Head(seq) + Sum(Tail(seq))

GroupSizes(n) == {sizes \in SeqsUpTo(0..n, MaxGroups) : Sum(sizes) = n}

SpecOf(shapes, sizes) ==
    [commonZod |-> JUndefined,
     groups |->
        [g \in 1..Len(sizes) |->
            [name |-> <<Cycle(GroupNames, g)>>,
             operations |->
                [o \in 1..sizes[g] |->
                    LET k == Sum(SubSeq(sizes, 1, g - 1)) + o
                    IN OperationOf(shapes[k], k)]]]]

InitSdk ==
    /\ \E n \in 0..MaxOperations :
         \E shapes \in [1..n -> Shapes], sizes \in GroupSizes(n) :
            spec = SpecOf(shapes, sizes)
    /\ pc = [at |-> "group", g |-> 1, o |-> 0]
    /\ emitter = NewEmitter
    /\ streamEmitter = NewEmitter
    /\ schemaEndpoint = NewSchemaEndpoint
    /\ schemas = <<>>
    /\ schemasImports = <<>>
    /\ errors = <<>>
    /\ buckets = <<>>
    /\ artifacts = Pending
    /\ SchemaIdle /\ MergeIdle /\ PathsIdle

NextSdk == EnterGroup \/ ProcessOperation \/ Return

SpecSdk == InitSdk /\ [][NextSdk]_vars

---------------------------------------------------------------------------
(* C1, C6, C7, C9: what generateClientSdk builds *)

RECURSIVE OperationsOfGroups(_, _)
\* the operations of the groups g.. of the spec, each with its group's name
OperationsOfGroups(groups, g) ==
    IF g > Len(groups) THEN <<>>
    ELSE [o \in 1..Len(groups[g].operations) |->
            [group |-> groups[g].name, operation |-> groups[g].operations[o]]]
         \o OperationsOfGroups(groups, g + 1)

AllOperations == OperationsOfGroups(spec.groups, 1)

\* the operations the loops have gone through
ProcessedCount ==
    LET before == Sum([g \in 1..(pc.g - 1) |-> Len(spec.groups[g].operations)])
    IN IF pc.at \in {"operation", "thrown"} THEN before + pc.o - 1 ELSE before

Processed == SubSeq(AllOperations, 1, ProcessedCount)

IsStream(entry) == entry.operation.type = "sse"

HasUnknownSource(operation) ==
    \E i \in 1..Len(operation.inputs) :
        operation.inputs[i][2].source \notin
            {"headers", "header", "query", "body", "path", "internal"}

Keys(endpoints) == [i \in 1..Len(endpoints) |-> endpoints[i].endpoint]

\* the keys the spec asks for: METHOD path, behind the variant tag when the
\* operation has several variants and the variant is not json
KeysOf(operation) ==
    IF operation.type = "sse"
    THEN << <<toUpperCase(operation.trigger.method), operation.trigger.path>> >>
    ELSE [k \in 1..Len(operation.schemas) |->
            (IF Len(operation.schemas) > 1 /\ operation.schemas[k][1] # "json"
             THEN <<operation.schemas[k][1]>> ELSE <<>>)
            \o <<toUpperCase(operation.trigger.method), operation.trigger.path>>]

RECURSIVE KeysOfAll(_, _)
KeysOfAll(entries, stream) ==
    IF entries = <<>> THEN <<>>
    ELSE (IF IsStream(Head(entries)) = stream
          THEN KeysOf(Head(entries).operation) ELSE <<>>)
         \o KeysOfAll(Tail(entries), stream)

DispatchKeys(interface) ==
    Keys(SelectSeq(schemaEndpoint.endpoints,
                   LAMBDA e : e.operation.input.interface = interface))

\* C1: the keys of the dispatch table are the keys of the registries: the
\* dispatch entries that refer to Endpoints carry, in order, the keys of the
\* Emitter entries, those that refer to StreamEndpoints the keys of the
\* StreamEmitter entries, each entry uses its key verbatim, and the keys are
\* those of the operations gone through, one per schema variant of a standard
\* operation, prefixed as the spec says
C1_KeyCorrelation ==
    pc.at # "idle" =>
        /\ DispatchKeys("Endpoints") = Keys(emitter.endpoints)
        /\ DispatchKeys("StreamEndpoints") = Keys(streamEmitter.endpoints)
        /\ \A i \in 1..Len(schemaEndpoint.endpoints) :
             LET e == schemaEndpoint.endpoints[i]
             IN e.operation.endpoint = e.endpoint /\ e.operation.input.key = e.endpoint
        /\ Keys(emitter.endpoints) = KeysOfAll(Processed, FALSE)
        /\ Keys(streamEmitter.endpoints) = KeysOfAll(Processed, TRUE)

\* the mapping was returned for a spec with a standard operation of two
\* variants and a streaming operation
C1_Witness ==
    /\ pc.at = "done"
    /\ \E i, j \in 1..Len(AllOperations) :
         /\ ~IsStream(AllOperations[i])
         /\ Len(AllOperations[i].operation.schemas) = 2
         /\ IsStream(AllOperations[j])

Occurrences(seq, x) == Cardinality({i \in 1..Len(seq) : seq[i] = x})

\* in which of the four buckets the name occurs, and how often
BucketCounts(b, name) ==
    <<Occurrences(b.inputHeaders, Quoted(name)),
      Occurrences(b.inputQuery, Quoted(name)),
      Occurrences(b.inputBody, Quoted(name)),
      Occurrences(b.inputParams, Quoted(name))>>

ExpectedCounts(source) ==
    IF source \in {"headers", "header"} THEN <<1, 0, 0, 0>>
    ELSE IF source = "query" THEN <<0, 1, 0, 0>>
    ELSE IF source = "body" THEN <<0, 0, 1, 0>>
    ELSE IF source = "path" THEN <<0, 0, 0, 1>>
    ELSE <<0, 0, 0, 0>>

\* C7: every input of an operation gone through is in the one bucket of its
\* source and in no other, an internal one in none, and the buckets hold
\* nothing else; generateClientSdk throws, with the field and the operation in
\* the message, at the first operation that has an input of another source,
\* and then returns no mapping
C7_BucketExhaustiveness ==
    pc.at # "idle" =>
        /\ Len(buckets) = ProcessedCount
        /\ \A i \in 1..Len(buckets) :
             LET inputs == Processed[i].operation.inputs
             IN /\ ~HasUnknownSource(Processed[i].operation)
                /\ \A k \in 1..Len(inputs) :
                     BucketCounts(buckets[i], inputs[k][1])
                       = ExpectedCounts(inputs[k][2].source)
                /\ Len(buckets[i].inputHeaders) + Len(buckets[i].inputQuery)
                     + Len(buckets[i].inputBody) + Len(buckets[i].inputParams)
                     = Cardinality({k \in 1..Len(inputs) :
                                      inputs[k][2].source # "internal"})
        /\ pc.at = "operation" =>
             /\ artifacts = Pending
             /\ ~\E i \in 1..ProcessedCount : HasUnknownSource(Processed[i].operation)
        /\ pc.at = "thrown" =>
             LET operation == spec.groups[pc.g].operations[pc.o]
             IN /\ HasUnknownSource(operation)
                /\ DOMAIN artifacts = {"thrown"}
                /\ \E k \in 1..Len(operation.inputs) :
                     /\ operation.inputs[k][2].source \notin
                          {"headers", "header", "query", "body", "path", "internal"}
                     /\ operation.inputs[k][1] \in Range(artifacts.thrown.message)
                     /\ operation.name \in Range(artifacts.thrown.message)
        /\ (\E i \in 1..Len(AllOperations) : HasUnknownSource(AllOperations[i].operation))
             => pc.at # "done" /\ (artifacts = Pending \/ DOMAIN artifacts = {"thrown"})

\* generateClientSdk threw at the second operation, after an operation with a
\* header, a body and an internal input
C7_Witness ==
    /\ pc.at = "thrown"
    /\ Len(buckets) = 1
    /\ Len(buckets[1].inputHeaders) = 1
    /\ Len(buckets[1].inputBody) = 1
    /\ \E k \in 1..Len(Processed[1].operation.inputs) :
         Processed[1].operation.inputs[k][2].source = "internal"

RECURSIVE VariantsOfAll(_)
\* the (operation, variant) pairs of the standard operations, in order
VariantsOfAll(entries) ==
    IF entries = <<>> THEN <<>>
    ELSE (IF IsStream(Head(entries)) THEN <<>>
          ELSE [k \in 1..Len(Head(entries).operation.schemas) |->
                  [group |-> Head(entries).group,
                   operation |-> Head(entries).operation,
                   type |-> Head(entries).operation.schemas[k][1]]])
         \o VariantsOfAll(Tail(entries))

\* the input type of a variant: typeof <file>.<name>Schema[.<variant>]
InputTypeOf(v) ==
    <<"typeof">> \o camelcase(v.group) \o <<".">>
      \o camelcase(<<v.operation.name, "schema">>)
      \o (IF Len(v.operation.schemas) > 1 THEN <<".", v.type>> ELSE <<>>)

DeclaredErrorsOf(operation) ==
    IF operation.errors = JUndefined THEN {} ELSE Range(operation.errors.el)

\* C9 as stated: the error type of the registry entry of every variant of a
\* standard operation is the union of the declared error identifiers and
\* ParseError<input type of the variant>, and of ServerError as well when no
\* error identifier is declared (errors empty or absent)
C9_AsStated ==
    pc.at # "idle" =>
        LET variants == VariantsOfAll(Processed)
        IN /\ Len(emitter.endpoints) = Len(variants)
           /\ \A i \in 1..Len(variants) :
                Range(emitter.endpoints[i].operation.error) =
                    DeclaredErrorsOf(variants[i].operation)
                    \cup {<<"ParseError<">> \o InputTypeOf(variants[i]) \o <<">">>}
                    \cup (IF DeclaredErrorsOf(variants[i].operation) = {}
                          THEN {<<"ServerError">>} ELSE {})

RECURSIVE ErrorsOfStandard(_)
ErrorsOfStandard(entries) ==
    IF entries = <<>> THEN <<>>
    ELSE (IF IsStream(Head(entries)) \/ Head(entries).operation.errors = JUndefined
          THEN <<>> ELSE Head(entries).operation.errors.el)
         \o ErrorsOfStandard(Tail(entries))

\* C6 as stated, for a spec with a streaming operation: the returned mapping
\* has an artifact that is the streaming registry and lists the key of every
\* streaming operation, no such key stands in the standard registry under a
\* streaming operation's entry, and the error list holds the errors of the
\* standard operations only
C6_AsStated ==
    (pc.at = "done" /\ \E i \in 1..Len(AllOperations) : IsStream(AllOperations[i])) =>
        /\ \E file \in DOMAIN artifacts :
             /\ artifacts[file] = StreamEmitterComplete(streamEmitter)
             /\ \A i \in 1..Len(AllOperations) :
                  IsStream(AllOperations[i]) =>
                     KeysOf(AllOperations[i].operation)[1]
                        \in Range(Keys(artifacts[file].endpoints))
        /\ Keys(emitter.endpoints) = KeysOfAll(AllOperations, FALSE)
        /\ errors = ErrorsOfStandard(AllOperations)

=============================================================================
